---- MODULE Spec2Model ----
(***************************************************************************)
(* Model of src/main.py: the Telegram handlers of the DreamWeaver bot.     *)
(*                                                                         *)
(* A handler is a coroutine; it runs atomically between two awaits, so     *)
(* there is one action per stretch of code between awaits.                 *)
(*                                                                         *)
(* Texts are sequences of one-character strings, so that startswith,       *)
(* slicing and strip are computed as Python computes them.                 *)
(*                                                                         *)
(* Environment: every call made inside a try block (the generation stream, *)
(* reply_photo, status_message.delete, the reply of error_handler) either  *)
(* returns or raises; reply_text / edit_text made outside any try block    *)
(* are taken to return.  The seed and the constant generation parameters   *)
(* of the request (lines 90-96) take no part in any decision and are left  *)
(* out of the request record.                                              *)
(***************************************************************************)
EXTENDS Integers, Sequences, FiniteSets, TLC

\* ------------------------------------------------------------------ bounds
MaxTail == 4
MaxEntries == 2
MaxArtifacts == 2
MaxUpdates == 2

\* ------------------------------------------------------------------ texts
Whitespace == {" ", "\t", "\n", "\r"}

Chars == {" ", "a"}

GenerateCommandText == <<"/", "g", "e", "n", "e", "r", "a", "t", "e">>

StartCommandText == <<"/", "s", "t", "a", "r", "t">>

HelpCommandText == <<"/", "h", "e", "l", "p">>

GeneratePrefix == <<"/", "g", "e", "n", "e", "r", "a", "t", "e", " ">>

WelcomeMessage == <<"Welcome to DreamWeaver AI! ...">>

HelpText == <<"DreamWeaver AI Help Guide ...">>

GenerateUsageText == <<"Please enter your image description after /generate. ...">>

ProvideDescriptionText == <<"Please provide a description after /generate">>

GeneratingText == <<"Generating your image... Please wait!">>

GenerationErrorText == <<"Sorry, there was an error generating your image. Please try again later.">>

SomethingWrongText == <<"Sorry, something went wrong. Please try again later.">>

SeqUpTo(S, n) == UNION {[1..k -> S] : k \in 0..n}

Tails == SeqUpTo(Chars, MaxTail)

\* The message texts the environment offers: the three commands, /generate
\* followed by any tail, and plain texts.
Texts ==
    {StartCommandText, HelpCommandText}
        \cup {GenerateCommandText \o t : t \in Tails}
        \cup (Tails \ {<<>>})

\* ------------------------------------------------------------ str methods
StartsWith(s, p) == Len(s) >= Len(p) /\ SubSeq(s, 1, Len(p)) = p

\* s[n:]
SliceFrom(s, n) == SubSeq(s, n + 1, Len(s))

RECURSIVE LStrip(_)
LStrip(s) ==
    IF s # <<>> /\ Head(s) \in Whitespace THEN LStrip(Tail(s)) ELSE s

RECURSIVE RStrip(_)
RStrip(s) ==
    IF s # <<>> /\ s[Len(s)] \in Whitespace
    THEN RStrip(SubSeq(s, 1, Len(s) - 1))
    ELSE s

Strip(s) == RStrip(LStrip(s))

\* ------------------------------------------------- generation service data
ARTIFACT_IMAGE == "ARTIFACT_IMAGE"

ARTIFACT_TEXT == "ARTIFACT_TEXT"

ArtifactTypes == {ARTIFACT_IMAGE, ARTIFACT_TEXT}

\* An artifact carries a type tag and a binary payload; the payload of the
\* artifact at place (i, j) of a response is the byte string <<i, j>>, so
\* that any two artifacts of a response differ in their bytes.
Answer(shape) ==
    [i \in 1..Len(shape) |->
        [j \in 1..Len(shape[i]) |-> [type |-> shape[i][j], binary |-> <<i, j>>]]]

RECURSIVE TotalLen(_)
TotalLen(shape) ==
    IF shape = <<>> THEN 0 ELSE Len(Head(shape)) + TotalLen(Tail(shape))

\* The type tags of a response: at most MaxEntries entries holding at most
\* MaxArtifacts artifacts between them.
Shapes ==
    {shape \in SeqUpTo(SeqUpTo(ArtifactTypes, MaxArtifacts), MaxEntries) :
        TotalLen(shape) <= MaxArtifacts}

\* What stability_api.generate may yield: the entries in order, then either
\* the end of the stream or (err) an exception raised by the stream.
Responses ==
    {[entries |-> Answer(shape), err |-> e] : shape \in Shapes, e \in BOOLEAN}

NoAnswers == [entries |-> <<>>, err |-> FALSE]

NoArtifact == [type |-> "none", binary |-> <<>>]

\* io.BytesIO(b): a buffer and a read position; seek; read to the end.
BytesIO(b) == [buf |-> b, pos |-> 0]

Seek(f, n) == [f EXCEPT !.pos = n]

Read(f) == SubSeq(f.buf, f.pos + 1, Len(f.buf))

NoImg == [buf |-> <<>>, pos |-> 0]

\* ------------------------------------------------------------------ state
VARIABLES
    pc,         \* where the running coroutine stands ("idle": none runs)
    entry,      \* how it was invoked: "polling", "call", "error", "none"
    text,       \* update.message.text
    hasMessage, \* update.message is not None
    prompt,     \* the local prompt of handle_text
    answers,    \* the stream the generation call returned
    img,        \* the BytesIO handed to reply_photo
    examined,   \* artifacts the loops of handle_text have looked at
    status,     \* status_message: "none", "sent", "deleted", "edited"
    log,        \* the calls made to the transport and the service, in order
    raised,     \* the exception raised inside the try block, or "none"
    escaped,    \* an exception left the handler
    handled     \* updates handled so far

vars ==
    <<pc, entry, text, hasMessage, prompt, answers, img, examined, status, log,
      raised, escaped, handled>>

Ev(op, t, photo, ok) == [op |-> op, text |-> t, photo |-> photo, ok |-> ok]

ReplyText(t) == Ev("reply_text", t, <<>>, TRUE)

Init ==
    /\ pc = "idle"
    /\ entry = "none"
    /\ text = <<>>
    /\ hasMessage = TRUE
    /\ prompt = <<>>
    /\ answers = NoAnswers
    /\ img = NoImg
    /\ examined = 0
    /\ status = "none"
    /\ log = <<>>
    /\ raised = "none"
    /\ escaped = FALSE
    /\ handled = 0

\* --------------------------------------------------------------- dispatch
\* Telegram marks "/" followed by command characters, at the start of a
\* text, as a bot_command entity; EntityLength is its length, 0 if none.
IsCommandChar(c) == c \notin Whitespace \cup {"/"}

RECURSIVE CommandRun(_, _)
CommandRun(s, k) ==
    IF k <= Len(s) /\ IsCommandChar(s[k]) THEN CommandRun(s, k + 1) ELSE k - 1

EntityLength(s) ==
    IF Len(s) >= 2 /\ s[1] = "/" /\ IsCommandChar(s[2]) THEN CommandRun(s, 2) ELSE 0

\* filters.COMMAND and filters.TEXT
FiltersCommand(s) == EntityLength(s) > 0

FiltersText(s) == s # <<>>

\* CommandHandler(name, ...).check_update
CommandMatches(s, command) ==
    FiltersCommand(s) /\ SubSeq(s, 1, EntityLength(s)) = command

\* Mutant: the text handler registered first and without ~filters.COMMAND.
SelectHandlerTextFirst(s) ==
    IF FiltersText(s) THEN "handle_text"
    ELSE IF CommandMatches(s, StartCommandText) THEN "start"
    ELSE IF CommandMatches(s, HelpCommandText) THEN "help_command"
    ELSE IF CommandMatches(s, GenerateCommandText) THEN "generate_command"
    ELSE "done"

\* The handlers main() registers, all in one group: the first whose check
\* accepts the update handles it, the others are not asked.
SelectHandler(s) ==
    IF CommandMatches(s, StartCommandText) THEN "start"
    ELSE IF CommandMatches(s, HelpCommandText) THEN "help_command"
    ELSE IF CommandMatches(s, GenerateCommandText) THEN "generate_command"
    ELSE IF FiltersText(s) /\ ~FiltersCommand(s) THEN "handle_text"
    ELSE "done"

\* application.run_polling delivers a message update.
Dispatch(t) ==
    /\ pc = "idle"
    /\ handled < MaxUpdates
    /\ pc' = SelectHandler(t)
    /\ entry' = "polling"
    /\ text' = t
    /\ UNCHANGED <<hasMessage, prompt, answers, img, examined, status, log,
                   raised, escaped, handled>>

\* handle_text awaited on a message update by a caller other than the
\* application (it is a module-level coroutine function).
CallHandleText(t) ==
    /\ pc = "idle"
    /\ handled < MaxUpdates
    /\ pc' = "handle_text"
    /\ entry' = "call"
    /\ text' = t
    /\ UNCHANGED <<hasMessage, prompt, answers, img, examined, status, log,
                   raised, escaped, handled>>

\* The application reports an error to the registered error handler; the
\* update it passes may carry no message.
ProcessError(m) ==
    /\ pc = "idle"
    /\ handled < MaxUpdates
    /\ pc' = "error_handler"
    /\ entry' = "error"
    /\ hasMessage' = m
    /\ UNCHANGED <<text, prompt, answers, img, examined, status, log, raised,
                   escaped, handled>>

\* ---------------------------------------------------------- static replies
Reply(t) ==
    /\ log' = Append(log, ReplyText(t))
    /\ pc' = "done"
    /\ UNCHANGED <<entry, text, hasMessage, prompt, answers, img, examined,
                   status, raised, escaped, handled>>

start ==
    /\ pc = "start"
    /\ Reply(WelcomeMessage)

help_command ==
    /\ pc = "help_command"
    /\ Reply(HelpText)

generate_command ==
    /\ pc = "generate_command"
    /\ Reply(GenerateUsageText)

\* ------------------------------------------------------------ handle_text
\* Mutant: the prefix is cut off and the rest is not stripped.
ExtractPromptUnstripped(t) == SliceFrom(t, 10)

\* message_text[9:].strip()
ExtractPrompt(t) == Strip(SliceFrom(t, 9))

\* Mutant: the emptiness check is lost.
PromptNeverMissing(p) == FALSE

\* if not prompt
PromptMissing(p) == p = <<>>

\* f"Generated image for: '{prompt}'"
Caption(p) == <<"Generated image for: '">> \o p \o <<"'">>

\* except Exception as e: the exceptions raised in the try block (by the
\* generation stream, by the Telegram calls) are all subclasses of Exception.
Catches(exc) == exc \in {"GenerationError", "TelegramError"}

\* An exception raised at a statement of the try block.
Raise(exc) ==
    /\ raised' = exc
    /\ IF Catches(exc)
       THEN pc' = "except" /\ escaped' = escaped
       ELSE pc' = "done" /\ escaped' = TRUE

\* Mutant: the generation starts without the "generating" reply.
BeginGenerationSilently(p) ==
    /\ prompt' = p
    /\ pc' = "generate"
    /\ UNCHANGED <<log, status>>

\* The "generating" reply, sent before the try block is entered.
BeginGeneration(p) ==
    /\ prompt' = p
    /\ log' = Append(log, ReplyText(GeneratingText))
    /\ status' = "sent"
    /\ pc' = "generate"

\* From the entry of handle_text to its first await and up to the next one.
handle_text ==
    /\ pc = "handle_text"
    /\ IF ~StartsWith(text, GeneratePrefix)
       THEN /\ pc' = "done"
            /\ UNCHANGED <<prompt, log, status>>
       ELSE IF PromptMissing(ExtractPrompt(text))
       THEN /\ prompt' = ExtractPrompt(text)
            /\ log' = Append(log, ReplyText(ProvideDescriptionText))
            /\ pc' = "done"
            /\ UNCHANGED status
       ELSE BeginGeneration(ExtractPrompt(text))
    /\ UNCHANGED <<entry, text, hasMessage, answers, img, examined, raised,
                   escaped, handled>>

\* for resp in answers: for artifact in resp.artifacts: if artifact.type == ...
\* from entry i, artifact j on, n artifacts having been looked at already.
RECURSIVE Scan(_, _, _, _)
Scan(entries, i, j, n) ==
    IF i > Len(entries)
    THEN [found |-> FALSE, artifact |-> NoArtifact, examined |-> n]
    ELSE IF j > Len(entries[i])
    THEN Scan(entries, i + 1, 1, n)
    ELSE IF entries[i][j].type = ARTIFACT_IMAGE
    THEN [found |-> TRUE, artifact |-> entries[i][j], examined |-> n + 1]
    ELSE Scan(entries, i, j + 1, n + 1)

FindImage(entries) == Scan(entries, 1, 1, 0)

\* Mutant: the buffer is left at its end instead of rewound.
ImageFileAtEnd(binary) == Seek(BytesIO(binary), Len(binary))

\* img = io.BytesIO(artifact.binary); img.seek(0)
ImageFile(binary) == Seek(BytesIO(binary), 0)

\* Mutant: a response without an image is treated as a failure.
AfterLoopRaises(ans) == "raise"

\* Where control goes when the stream ends without an image having been
\* found: the stream raises, or the loops end and the function returns.
AfterLoop(ans) == IF ans.err THEN "raise" ELSE "return"

\* The generation call and the loops over its answers, up to the await of
\* reply_photo, the exception or the end of the loops.
Generate(ans) ==
    /\ pc = "generate"
    /\ answers' = ans
    /\ log' = Append(log, Ev("generate", prompt, <<>>, TRUE))
    /\ examined' = FindImage(ans.entries).examined
    /\ IF FindImage(ans.entries).found
       THEN /\ img' = ImageFile(FindImage(ans.entries).artifact.binary)
            /\ pc' = "reply_photo"
            /\ UNCHANGED <<raised, escaped>>
       ELSE IF AfterLoop(ans) = "raise"
       THEN /\ Raise("GenerationError")
            /\ UNCHANGED img
       ELSE /\ pc' = "done"
            /\ UNCHANGED <<img, raised, escaped>>
    /\ UNCHANGED <<entry, text, hasMessage, prompt, status, handled>>

\* await update.message.reply_photo(photo=img, caption=...) returns or raises.
ReplyPhoto(ok) ==
    /\ pc = "reply_photo"
    /\ log' = Append(log, Ev("reply_photo", Caption(prompt), Read(img), ok))
    /\ IF ok
       THEN pc' = "delete" /\ UNCHANGED <<raised, escaped>>
       ELSE Raise("TelegramError")
    /\ UNCHANGED <<entry, text, hasMessage, prompt, answers, img, examined,
                   status, handled>>

\* await status_message.delete() returns (and handle_text returns) or raises.
Delete(ok) ==
    /\ pc = "delete"
    /\ log' = Append(log, Ev("delete", <<>>, <<>>, ok))
    /\ IF ok
       THEN /\ status' = "deleted"
            /\ pc' = "done"
            /\ UNCHANGED <<raised, escaped>>
       ELSE /\ Raise("TelegramError")
            /\ UNCHANGED status
    /\ UNCHANGED <<entry, text, hasMessage, prompt, answers, img, examined,
                   handled>>

\* Mutant: the except clause re-raises after the edit.
ExceptReraising ==
    /\ pc = "except"
    /\ log' = Append(log, Ev("edit_text", GenerationErrorText, <<>>, TRUE))
    /\ status' = "edited"
    /\ pc' = "done"
    /\ escaped' = TRUE
    /\ UNCHANGED <<entry, text, hasMessage, prompt, answers, img, examined,
                   raised, handled>>

\* The except clause: log, then edit the status message to the error text.
Except ==
    /\ pc = "except"
    /\ log' = Append(log, Ev("edit_text", GenerationErrorText, <<>>, TRUE))
    /\ status' = "edited"
    /\ pc' = "done"
    /\ UNCHANGED <<entry, text, hasMessage, prompt, answers, img, examined,
                   raised, escaped, handled>>

\* ---------------------------------------------------------- error_handler
\* Mutant: the clause names the transport's exception class only.
SwallowsTelegramErrorOnly(exc) == exc = "TelegramError"

\* The bare except clause of error_handler.
Swallows(exc) == TRUE

\* try: await update.message.reply_text(...); except: pass.  The attribute
\* access raises when the update has no message; the reply returns or raises.
error_handler(ok) ==
    /\ pc = "error_handler"
    /\ log' = IF hasMessage
              THEN Append(log, Ev("reply_text", SomethingWrongText, <<>>, ok))
              ELSE log
    /\ escaped' = IF ~hasMessage THEN ~Swallows("AttributeError")
                  ELSE IF ~ok THEN ~Swallows("TelegramError")
                  ELSE escaped
    /\ pc' = "done"
    /\ UNCHANGED <<entry, text, hasMessage, prompt, answers, img, examined,
                   status, raised, handled>>

\* The coroutine has returned; the application waits for the next update.
Return ==
    /\ pc = "done"
    /\ pc' = "idle"
    /\ entry' = "none"
    /\ text' = <<>>
    /\ hasMessage' = TRUE
    /\ prompt' = <<>>
    /\ answers' = NoAnswers
    /\ img' = NoImg
    /\ examined' = 0
    /\ status' = "none"
    /\ log' = <<>>
    /\ raised' = "none"
    /\ escaped' = FALSE
    /\ handled' = handled + 1

Next ==
    \/ \E t \in Texts : Dispatch(t)
    \/ \E t \in Texts : CallHandleText(t)
    \/ \E m \in BOOLEAN : ProcessError(m)
    \/ start
    \/ help_command
    \/ generate_command
    \/ handle_text
    \/ \E ans \in Responses : Generate(ans)
    \/ \E ok \in BOOLEAN : ReplyPhoto(ok)
    \/ \E ok \in BOOLEAN : Delete(ok)
    \/ Except
    \/ \E ok \in BOOLEAN : error_handler(ok)
    \/ Return

Spec == Init /\ [][Next]_vars

\* ============================================================ properties
\* Vocabulary of the properties, stated on the inputs and on the log and
\* not by way of the operators the handlers are built from.
AllWhitespace(s) == \A i \in 1..Len(s) : s[i] \in Whitespace

\* The text after the generate-command prefix.
AfterPrefix(t) == SubSeq(t, Len(GeneratePrefix) + 1, Len(t))

\* P is s without its leading and trailing whitespace, and is not empty.
IsTrimOf(P, s) ==
    /\ P # <<>>
    /\ P[1] \notin Whitespace
    /\ P[Len(P)] \notin Whitespace
    /\ \E i \in 1..Len(s) :
        /\ i + Len(P) - 1 <= Len(s)
        /\ SubSeq(s, i, i + Len(P) - 1) = P
        /\ AllWhitespace(SubSeq(s, 1, i - 1))
        /\ AllWhitespace(SubSeq(s, i + Len(P), Len(s)))

Pieces(s) == {SubSeq(s, i, j) : i \in 1..Len(s), j \in 1..Len(s)}

\* The running coroutine is handle_text.
InHandleText ==
    \/ entry = "call"
    \/ entry = "polling" /\ SelectHandler(text) = "handle_text"

HasPrefix == Len(text) >= 10 /\ SubSeq(text, 1, 10) = GeneratePrefix

Calls(op) == {k \in 1..Len(log) : log[k].op = op}

AfterCall == pc \in {"reply_photo", "delete", "except", "done"}

ImagePlaces(ans) ==
    {<<i, j>> \in (1..Len(ans.entries)) \X (1..MaxArtifacts + 1) :
        j <= Len(ans.entries[i]) /\ ans.entries[i][j].type = ARTIFACT_IMAGE}

HasImage(ans) == ImagePlaces(ans) # {}

Before(p, q) == p[1] < q[1] \/ (p[1] = q[1] /\ p[2] < q[2])

\* The place of the first image-typed artifact in entry/artifact order.
FirstImagePlace(ans) ==
    CHOOSE p \in ImagePlaces(ans) : \A q \in ImagePlaces(ans) : q = p \/ Before(p, q)

\* The number of artifacts up to and including place p.
Rank(ans, p) == TotalLen(SubSeq(ans.entries, 1, p[1] - 1)) + p[2]

PhotoSent == \E k \in Calls("reply_photo") : log[k].ok

ErrorShown == \E k \in Calls("edit_text") : log[k].text = GenerationErrorText

\* The generation stream raised, or a call made while processing it did.
TryFailed ==
    \/ Calls("generate") # {} /\ ~HasImage(answers) /\ answers.err
    \/ \E k \in Calls("reply_photo") \cup Calls("delete") : ~log[k].ok

\* C1: for every text handled by handle_text whose prompt (the text after the
\* generate-command prefix, trimmed) is a non-empty string P, the handler
\* issues exactly one call to the generation service, with prompt P: never
\* more than one, and one with prompt P once the call has been made.
C1_OneCallWithTrimmedPrompt ==
    \A P \in Pieces(AfterPrefix(text)) :
        (InHandleText /\ HasPrefix /\ IsTrimOf(P, AfterPrefix(text)))
            => /\ Cardinality(Calls("generate")) <= 1
               /\ \A k \in Calls("generate") : log[k].text = P
               /\ AfterCall => Cardinality(Calls("generate")) = 1

C1_Witness ==
    /\ pc = "done"
    /\ InHandleText
    /\ HasPrefix
    /\ Calls("generate") # {}
    /\ \E k \in Calls("generate") :
        /\ IsTrimOf(log[k].text, AfterPrefix(text))
        /\ Len(log[k].text) + 2 <= Len(AfterPrefix(text))

\* C2: a message "/generate <prompt>" with a non-empty prompt, delivered by
\* the transport and dispatched through the handlers main() registers, is
\* mapped to a single generation-service call.
C2_DispatchedGenerateCallsService ==
    (/\ entry = "polling"
     /\ pc = "done"
     /\ HasPrefix
     /\ \E P \in Pieces(AfterPrefix(text)) : IsTrimOf(P, AfterPrefix(text)))
        => Cardinality(Calls("generate")) = 1

C5_EmptyPromptRejected ==
    (InHandleText /\ HasPrefix /\ AllWhitespace(AfterPrefix(text)))
        => /\ Calls("generate") = {}
           /\ status = "none"
           /\ \A k \in 1..Len(log) : log[k] = ReplyText(ProvideDescriptionText)
           /\ Len(log) <= 1
           /\ pc = "done" => Len(log) = 1

C5_Witness ==
    /\ pc = "done"
    /\ InHandleText
    /\ HasPrefix
    /\ Len(text) > 10
    /\ AllWhitespace(AfterPrefix(text))
    /\ Len(log) = 1

\* C6: when the generation call returns normally and no entry of the
\* response holds an image-typed artifact (the empty response included),
\* handle_text ends without a photo, with the status message neither edited
\* nor deleted, and with no error or success reply.
C6_NoImageFallsThrough ==
    (Calls("generate") # {} /\ ~HasImage(answers) /\ ~answers.err)
        => /\ pc = "done"
           /\ status = "sent"
           /\ log = <<ReplyText(GeneratingText), Ev("generate", prompt, <<>>, TRUE)>>
           /\ ~escaped

C6_Witness ==
    /\ pc = "done"
    /\ Calls("generate") # {}
    /\ ~HasImage(answers)
    /\ ~answers.err
    /\ TotalLen(answers.entries) = 2

\* C7: within one invocation the "generating" reply is sent before the
\* generation call is issued; on the success path the photo reply is sent
\* before the status message is deleted, and nothing is sent or examined
\* after the deletion.
C7_Ordering ==
    /\ \A k \in Calls("generate") :
        k > 1 /\ log[k - 1] = ReplyText(GeneratingText)
    /\ \A k \in Calls("delete") :
        /\ k > 1
        /\ log[k - 1].op = "reply_photo"
        /\ log[k - 1].ok
        /\ log[k].ok => (k = Len(log) /\ pc = "done")
    /\ status = "deleted" =>
        /\ Calls("delete") # {}
        /\ examined = Rank(answers, FirstImagePlace(answers))

C7_Witness ==
    /\ status = "deleted"
    /\ Len(log) = 4
    /\ log[3].op = "reply_photo"
    /\ log[4].op = "delete"
    /\ examined < TotalLen(answers.entries)

\* C8: error_handler attempts the generic "something went wrong" reply and
\* discards any failure of the attempt (the update having no message to
\* reply to included): no exception leaves error_handler.
C8_ErrorHandlerSwallows ==
    (entry = "error" /\ pc = "done")
        => /\ ~escaped
           /\ hasMessage =>
                (/\ Len(log) = 1
                 /\ log[1].op = "reply_text"
                 /\ log[1].text = SomethingWrongText)
           /\ ~hasMessage => log = <<>>

C8_Witness ==
    /\ entry = "error"
    /\ pc = "done"
    /\ hasMessage
    /\ Len(log) = 1
    /\ ~log[1].ok

\* C9: after any number of handled updates, the /start, /help and bare
\* /generate commands dispatched by the application each produce exactly
\* their own fixed reply, with no generation-service call.
C9_StaticReplies ==
    (entry = "polling" /\ pc = "done")
        => /\ text = StartCommandText => log = <<ReplyText(WelcomeMessage)>>
           /\ text = HelpCommandText => log = <<ReplyText(HelpText)>>
           /\ text = GenerateCommandText => log = <<ReplyText(GenerateUsageText)>>
           /\ text \in {StartCommandText, HelpCommandText, GenerateCommandText}
                => (status = "none" /\ Calls("generate") = {})

C9_Witness ==
    /\ entry = "polling"
    /\ pc = "done"
    /\ handled >= 1
    /\ text = GenerateCommandText
    /\ log = <<ReplyText(GenerateUsageText)>>

\* C10: handle_text never both sends a photo reply and edits the status
\* message to the error text in one invocation, whatever the outcome of the
\* photo send and of the status-message deletion.
C10_PhotoAndErrorExclusive == ~(PhotoSent /\ ErrorShown)

====
